---- MODULE Spec2Model ----
(***************************************************************************)
(* Status-tracking engine of src/main.py: the sites / status_history /     *)
(* incidents tables (DatabaseManager), site seeding and the tracker        *)
(* (StatusMonitor), and the /api/status snapshot (create_flask_app).       *)
(*                                                                         *)
(* Time is the value of time.time(), in whole units; every read of the     *)
(* clock may find it advanced.  NULL stands for SQL NULL / Python None in  *)
(* numeric columns, Never for the 'Never' default of sites.last_checked.   *)
(***************************************************************************)
EXTENDS Integers, Sequences, FiniteSets, TLC

\* ------------------------------------------------------------------ bounds
MaxTime == 5        \* the clock is observed in 0..MaxTime
MaxStep == 3        \* largest advance of the clock between two handlers
MaxDrift == 1       \* largest advance of the clock inside one handler
MaxHistory == 4     \* cap on status_history rows (probe results applied)
MaxSeedings == 2    \* cap on the runs of _initialize_sites (process starts)
MaxProbeLatency == 1 \* longest request followed by the prober's specification
MaxStepsHistory == 2 \* cap on status_history rows in the tracker-statements specification
HistoryLimit == 2   \* stands for LIMIT 100 of api_site_history, scaled to the bounded history
RetentionWindow == 3 \* age beyond which a history row counts as expired (the code defines none)
HistoryWindow == 3  \* stands for the 86400 seconds of api_site_history, scaled to the bounded clock
MaxCalls == 4       \* cap on the calls of start() and stop() in the threads specification
MaxThreadCycles == 2 \* cap on the cycles one monitor thread runs in the threads specification
MaxFlapHistory == 6 \* cap on status_history rows in the incidents' specification

MaxCycles == 3      \* cap on the monitoring cycles followed in the loop's specification
DefaultCheckInterval == 60  \* get_check_interval's default, seconds
ErrorPause == 30    \* time.sleep(30) in monitor_loop's exception handler

\* --------------------------------------------------------------- constants
NULL == -1
Never == -1
HTTP_OK == 200      \* default expected_status

Min(a, b) == IF a <= b THEN a ELSE b

\* --------------------------------------------------------- configuration
\* ConfigManager.get_sites(): the ordered list of site dictionaries.
Alpha == [name |-> "Alpha", url |-> "http://alpha", expected_status |-> HTTP_OK]
Beta == [name |-> "Beta", url |-> "http://beta", expected_status |-> HTTP_OK]
Configs == {<<Alpha>>, <<Alpha, Beta>>}

\* What one GET can do: an HTTP response with a status code after `latency`
\* units, or asyncio.TimeoutError once the request timeout has elapsed.
Outcomes ==
  { [kind |-> "http", code |-> 200, latency |-> 0],
    [kind |-> "timeout", code |-> NULL, latency |-> 1] }

VARIABLES
  config,          \* config_manager.config['sites']
  sites,           \* rows of table sites
  status_history,  \* rows of table status_history
  incidents,       \* rows of table incidents
  seq,             \* sqlite_sequence: last AUTOINCREMENT id per table
  clock,           \* last value returned by time.time()
  results,         \* check_all_sites: probe results not yet applied
  response,        \* JSON body being returned by a request handler
  network,         \* what the network did for each probe in results
  config_file,     \* config.yaml as ConfigManager._load_config finds it
  loop,            \* monitor_loop: position and locals of the monitoring thread
  tracker,         \* _update_site_status: position and locals, statement by statement
  fault            \* the failure met by the last application of a probe result

vars == <<config, sites, status_history, incidents, seq, clock, results, response,
          network, config_file, loop, tracker, fault>>

\* The parts of the state that only the specifications of the configuration
\* loader, of monitor_loop, of the statement-level tracker and of store
\* failures follow; the other specifications leave them as they start.
aux == <<config_file, loop, tracker, fault>>

ValidFile(cfg) == [kind |-> "valid", sites |-> cfg]
LoopNotFollowed == [pc |-> "not_followed"]
TrackerIdle == [pc |-> "idle"]
AuxInit ==
  /\ config_file = ValidFile(config)
  /\ loop = LoopNotFollowed
  /\ tracker = TrackerIdle
  /\ fault = "none"

NoResponse == [endpoint |-> "none"]

\* ------------------------------------------------------------------ clock
\* time.time() at the start of a handler.
ClockReads(c) == c .. Min(c + MaxStep, MaxTime)
\* time.time() read again later in the same handler.
DriftReads(t) == t .. Min(t + MaxDrift, MaxTime)

\* ------------------------------------------------------------ site seeding
\* Column defaults of CREATE TABLE sites with the four columns the INSERT sets.
NewSiteRow(id, site, t) ==
  [ id |-> id, name |-> site.name, url |-> site.url,
    status |-> "Unknown", last_change |-> t, last_checked |-> Never,
    total_uptime |-> 0, total_downtime |-> 0,
    response_time |-> NULL, status_code |-> NULL ]

\* Mutant: the conflicting row is kept beside the new one.
InsertSiteKeepOld(S, id, site, t) == S \cup {NewSiteRow(id, site, t)}

\* INSERT OR REPLACE: a row that conflicts on the UNIQUE name is deleted, then
\* the new row is inserted under a fresh AUTOINCREMENT id.
InsertOrReplaceSite(S, id, site, t) ==
  (S \ {r \in S : r.name = site.name}) \cup {NewSiteRow(id, site, t)}

RECURSIVE SeedFrom(_, _, _, _, _)
SeedFrom(S, n, cfg, i, t) ==
  IF i > Len(cfg) THEN [sites |-> S, seq |-> n]
  ELSE SeedFrom(InsertOrReplaceSite(S, n + 1, cfg[i], t), n + 1, cfg, i + 1, t)

\* StatusMonitor._initialize_sites over the store S.
InitializeSitesOn(S, n, cfg, t) == SeedFrom(S, n, cfg, 1, t)

\* ----------------------------------------------------------------- prober
\* Mutant: the upper end of the success range is included.
HttpStatusUpTo300(site, code) ==
  IF site.expected_status = code \/ (200 <= code /\ code <= 300)
  THEN "Online" ELSE "Down"

\* check_site: the status given to an HTTP response.
HttpStatus(site, code) ==
  IF site.expected_status = code \/ (200 <= code /\ code < 300)
  THEN "Online" ELSE "Down"

\* Mutant: no handler for asyncio.TimeoutError, the catch-all takes it.
FailureErrorNoTimeoutCase(kind) ==
  IF kind = "client_error" THEN "Client error" ELSE "Unexpected error"

\* check_site: result['error'] set by the three except clauses (the text of
\* the exception that follows the prefix is left out).
FailureError(kind) ==
  IF kind = "timeout" THEN "Request timeout"
  ELSE IF kind = "client_error" THEN "Client error"
  ELSE "Unexpected error"

\* StatusMonitor.check_site: the result dictionary for one site.  out.kind is
\* "http" for a response, "timeout" for asyncio.TimeoutError, "client_error"
\* for aiohttp.ClientError, "exception" for any other Exception.
CheckSite(site, out, start_time) ==
  IF out.kind = "http"
  THEN [ name |-> site.name, url |-> site.url,
         status |-> HttpStatus(site, out.code),
         response_time |-> out.latency, status_code |-> out.code,
         error |-> "None", checked_at |-> start_time ]
  ELSE [ name |-> site.name, url |-> site.url, status |-> "Down",
         response_time |-> out.latency, status_code |-> NULL,
         error |-> FailureError(out.kind), checked_at |-> start_time ]

\* ---------------------------------------------------------------- tracker
\* execute_query("SELECT * FROM sites WHERE name = ?")
SelectSiteByName(S, name) == {r \in S : r.name = name}

\* Mutant: every status but Down is charged to total_uptime.
NewUptimeUnlessDown(site, current_time) ==
  IF site.status # "Down"
  THEN site.total_uptime + (current_time - site.last_change)
  ELSE site.total_uptime

\* _update_site_status: the counters written back, charged to previous_status.
NewUptime(site, current_time) ==
  IF site.status = "Online"
  THEN site.total_uptime + (current_time - site.last_change)
  ELSE site.total_uptime

\* Mutant: a plain else in place of elif previous_status == 'Down'.
NewDowntimeElse(site, current_time) ==
  IF site.status = "Online" THEN site.total_downtime
  ELSE site.total_downtime + (current_time - site.last_change)

NewDowntime(site, current_time) ==
  IF site.status = "Online" THEN site.total_downtime
  ELSE IF site.status = "Down"
       THEN site.total_downtime + (current_time - site.last_change)
       ELSE site.total_downtime

\* Mutant: last_change is rewritten only when the status changes.
NewLastChangeOnTransition(site, result, current_time) ==
  IF site.status # result.status THEN current_time ELSE site.last_change

\* _update_site_status: the value written to last_change.
NewLastChange(site, result, current_time) == current_time

\* UPDATE sites SET ... WHERE name = ?
UpdateSiteRow(site, result, current_time) ==
  [ site EXCEPT
      !.status = result.status,
      !.last_change = NewLastChange(site, result, current_time),
      !.last_checked = current_time,
      !.total_uptime = NewUptime(site, current_time),
      !.total_downtime = NewDowntime(site, current_time),
      !.response_time = result.response_time,
      !.status_code = result.status_code ]

\* Mutant: the error of the probe is not passed to the INSERT.
NewHistoryRowNoError(id, site, result, current_time) ==
  [ id |-> id, site_id |-> site.id, status |-> result.status,
    response_time |-> result.response_time, status_code |-> result.status_code,
    error_message |-> "None", checked_at |-> current_time ]

\* INSERT INTO status_history
NewHistoryRow(id, site, result, current_time) ==
  [ id |-> id, site_id |-> site.id, status |-> result.status,
    response_time |-> result.response_time, status_code |-> result.status_code,
    error_message |-> result.error, checked_at |-> current_time ]

\* INSERT INTO incidents (site_id, start_time, description)
NewIncidentRow(id, site, result, t) ==
  [ id |-> id, site_id |-> site.id, start_time |-> t, end_time |-> NULL,
    duration |-> NULL, description |-> result.error, resolved |-> FALSE ]

\* _handle_status_change: which branch runs.
CreatesIncident(old_status, result) ==
  result.status = "Down" /\ old_status = "Online"

\* Mutant: the resolving branch tests the old status of the creating branch.
ResolvesIncidentOldOnline(old_status, result) ==
  result.status = "Online" /\ old_status = "Online"

ResolvesIncident(old_status, result) ==
  result.status = "Online" /\ old_status = "Down"

\* The duration written when an incident is resolved; `site` is the row read
\* before the UPDATE of sites.
ResolvedDuration(site, inc, t) == t - site.last_change

\* Mutant: the WHERE clause tests resolved = TRUE.
ResolveIncidentsWrongFlag(I, site, t) ==
  { IF inc.site_id = site.id /\ inc.resolved
    THEN [ inc EXCEPT !.end_time = t,
                      !.duration = ResolvedDuration(site, inc, t),
                      !.resolved = TRUE ]
    ELSE inc : inc \in I }

\* Mutant: the WHERE clause is site_id = ? alone.
ResolveIncidentsOfSite(I, site, t) ==
  { IF inc.site_id = site.id
    THEN [ inc EXCEPT !.end_time = t,
                      !.duration = ResolvedDuration(site, inc, t),
                      !.resolved = TRUE ]
    ELSE inc : inc \in I }

\* UPDATE incidents SET ... WHERE site_id = ? AND resolved = FALSE
ResolveIncidents(I, site, t) ==
  { IF inc.site_id = site.id /\ ~inc.resolved
    THEN [ inc EXCEPT !.end_time = t,
                      !.duration = ResolvedDuration(site, inc, t),
                      !.resolved = TRUE ]
    ELSE inc : inc \in I }

\* Mutant: the branch that resolves incidents is missing.
HandleStatusChangeCreateOnly(I, n, site, old_status, result, t) ==
  IF CreatesIncident(old_status, result)
  THEN [incidents |-> I \cup {NewIncidentRow(n + 1, site, result, t)}, seq |-> n + 1]
  ELSE [incidents |-> I, seq |-> n]

\* _handle_status_change(site, old_status, result), time.time() returning t.
HandleStatusChange(I, n, site, old_status, result, t) ==
  IF CreatesIncident(old_status, result)
  THEN [incidents |-> I \cup {NewIncidentRow(n + 1, site, result, t)}, seq |-> n + 1]
  ELSE IF ResolvesIncident(old_status, result)
       THEN [incidents |-> ResolveIncidents(I, site, t), seq |-> n]
       ELSE [incidents |-> I, seq |-> n]

\* Whether _handle_status_change is called and reads the clock again.
ReadsClockAgain(site, result) ==
  site.status # result.status
  /\ (CreatesIncident(site.status, result) \/ ResolvesIncident(site.status, result))

\* ---------------------------------------------------------- query service
\* format_duration: the text as its (number, unit) parts, "1m 30s" being
\* <<[n |-> 1, u |-> "m"], [n |-> 30, u |-> "s"]>>.
FormatDuration(seconds) ==
  IF seconds <= 0 THEN <<[n |-> 0, u |-> "s"]>>
  ELSE IF seconds < 60 THEN <<[n |-> seconds, u |-> "s"]>>
  ELSE IF seconds < 3600
       THEN IF seconds % 60 # 0
            THEN <<[n |-> seconds \div 60, u |-> "m"], [n |-> seconds % 60, u |-> "s"]>>
            ELSE <<[n |-> seconds \div 60, u |-> "m"]>>
  ELSE IF seconds < 86400
       THEN IF (seconds % 3600) \div 60 # 0
            THEN <<[n |-> seconds \div 3600, u |-> "h"],
                   [n |-> (seconds % 3600) \div 60, u |-> "m"]>>
            ELSE <<[n |-> seconds \div 3600, u |-> "h"]>>
  ELSE IF (seconds % 86400) \div 3600 # 0
       THEN <<[n |-> seconds \div 86400, u |-> "d"],
              [n |-> (seconds % 86400) \div 3600, u |-> "h"]>>
       ELSE <<[n |-> seconds \div 86400, u |-> "d"]>>

\* Mutant: the persisted total, without the running interval.
DisplayUptimeStored(site, current_time) == site.total_uptime

\* api_status: the live totals of one row at current_time.
DisplayUptime(site, current_time) ==
  IF site.status = "Online"
  THEN site.total_uptime + (current_time - site.last_change)
  ELSE site.total_uptime

DisplayDowntime(site, current_time) ==
  IF site.status = "Online" THEN site.total_downtime
  ELSE IF site.status = "Down"
       THEN site.total_downtime + (current_time - site.last_change)
       ELSE site.total_downtime

\* Mutant: 0.0 in place of 100.0 when total_time is 0.
UptimePercentZero(display_uptime, display_downtime) ==
  LET total_time == display_uptime + display_downtime
      q == (display_uptime * 100000) \div total_time
      r == (display_uptime * 100000) % total_time
  IN  IF total_time > 0
      THEN IF 2 * r < total_time THEN q
           ELSE IF 2 * r > total_time THEN q + 1
           ELSE IF q % 2 = 0 THEN q ELSE q + 1
      ELSE 0

\* api_status: uptime_percent, as the thousandths of a percent that the three
\* printed decimals show (rounded to nearest, ties to even).
UptimePercent(display_uptime, display_downtime) ==
  LET total_time == display_uptime + display_downtime
      q == (display_uptime * 100000) \div total_time
      r == (display_uptime * 100000) % total_time
  IN  IF total_time > 0
      THEN IF 2 * r < total_time THEN q
           ELSE IF 2 * r > total_time THEN q + 1
           ELSE IF q % 2 = 0 THEN q ELSE q + 1
      ELSE 100000

\* f"{uptime_percent:.3f}%": the text as its digits and the number of decimals
\* printed, "60.000%" being [digits |-> 60000, decimals |-> 3].
FormatPercent(thousandths) == [digits |-> thousandths, decimals |-> 3]

\* api_status: the entry of one site in response_data["sites"].
SiteEntry(site, current_time) ==
  [ status |-> site.status,
    uptime |-> FormatDuration(DisplayUptime(site, current_time)),
    downtime |-> FormatDuration(DisplayDowntime(site, current_time)),
    uptime_percent |-> FormatPercent(
                         UptimePercent(DisplayUptime(site, current_time),
                                       DisplayDowntime(site, current_time))),
    last_checked |-> site.last_checked,
    response_time |-> site.response_time,
    url |-> site.url,
    status_code |-> site.status_code ]

\* Mutant: only a site that is Down clears all_operational.
OverallStatusUnlessDown(S) ==
  IF \A r \in S : r.status # "Down" THEN "operational" ELSE "degraded"

\* api_status: overall_status.
OverallStatus(S) ==
  IF \A r \in S : r.status = "Online" THEN "operational" ELSE "degraded"

\* api_status: the JSON body; a later row of the same name overwrites an
\* earlier one in the "sites" dictionary.
StatusResponse(S, timestamp, current_time) ==
  [ endpoint |-> "status",
    sites |-> [ name \in {r.name : r \in S} |->
                  SiteEntry(CHOOSE r \in S : r.name = name
                              /\ \A o \in S : o.name = name => o.id <= r.id,
                            current_time) ],
    timestamp |-> timestamp,
    overall_status |-> OverallStatus(S) ]

\* ---------------------------------------------------------------- actions
\* Mutant: the gather returns as soon as the first probe has completed.
MaxLatencyFirst(outs) == outs[1].latency

\* asyncio.gather: the time the longest of the concurrent probes takes.
MaxLatency(outs) ==
  CHOOSE m \in {outs[i].latency : i \in DOMAIN outs} :
    \A i \in DOMAIN outs : outs[i].latency <= m

\* The first start of the process over an empty store: DatabaseManager creates
\* the tables, StatusMonitor.__init__ seeds them.
Init ==
  /\ config \in Configs
  /\ clock = 0
  /\ sites = InitializeSitesOn({}, 0, config, 0).sites
  /\ status_history = {}
  /\ incidents = {}
  /\ seq = [sites |-> InitializeSitesOn({}, 0, config, 0).seq,
            status_history |-> 0, incidents |-> 0]
  /\ results = <<>>
  /\ response = NoResponse
  /\ network = <<>>
  /\ AuxInit

\* The process is started again over the store it left behind:
\* StatusMonitor.__init__ runs _initialize_sites with the same configuration.
InitializeSites ==
  /\ response = NoResponse
  /\ seq.sites + Len(config) <= MaxSeedings * Len(config)
  /\ \E current_time \in ClockReads(clock) :
       LET seeded == InitializeSitesOn(sites, seq.sites, config, current_time)
       IN  /\ sites' = seeded.sites
           /\ seq' = [seq EXCEPT !.sites = seeded.seq]
           /\ clock' = current_time
  /\ results' = <<>>
  /\ network' = <<>>
  /\ UNCHANGED <<config, status_history, incidents, response>>
  /\ UNCHANGED aux

\* check_all_sites up to the end of asyncio.gather: one probe per configured
\* site, all started at start_time.
CheckAllSites ==
  /\ response = NoResponse
  /\ results = <<>>
  /\ seq.status_history + Len(config) <= MaxHistory
  /\ \E start_time \in ClockReads(clock) :
     \E outs \in [1 .. Len(config) -> Outcomes] :
       /\ start_time + MaxLatency(outs) <= MaxTime
       /\ results' = [i \in 1 .. Len(config) |-> CheckSite(config[i], outs[i], start_time)]
       /\ network' = outs
       /\ clock' = start_time + MaxLatency(outs)
  /\ UNCHANGED <<config, sites, status_history, incidents, seq, response>>
  /\ UNCHANGED aux

\* check_all_sites, one turn of the loop over results: _update_site_status
\* with _handle_status_change.
UpdateSiteStatus ==
  /\ response = NoResponse
  /\ results # <<>>
  /\ LET result == Head(results)
         site_data == SelectSiteByName(sites, result.name)
     IN  IF site_data = {}
         THEN UNCHANGED <<sites, status_history, incidents, seq, clock>>
         ELSE \E site \in site_data :
              \E current_time \in DriftReads(clock) :
              \E t \in DriftReads(current_time) :
                LET handled == HandleStatusChange(incidents, seq.incidents, site,
                                                  site.status, result, t)
                IN  /\ ReadsClockAgain(site, result) \/ t = current_time
                    /\ sites' = (sites \ site_data)
                                  \cup {UpdateSiteRow(r, result, current_time) : r \in site_data}
                    /\ status_history' = status_history \cup
                         {NewHistoryRow(seq.status_history + 1, site, result, current_time)}
                    /\ incidents' = IF site.status # result.status
                                    THEN handled.incidents ELSE incidents
                    /\ seq' = [seq EXCEPT
                                 !.status_history = @ + 1,
                                 !.incidents = IF site.status # result.status
                                               THEN handled.seq ELSE @]
                    /\ clock' = t
  /\ results' = Tail(results)
  /\ network' = Tail(network)
  /\ UNCHANGED <<config, response>>
  /\ UNCHANGED aux

\* GET /api/status
ApiStatus ==
  /\ response = NoResponse
  /\ \E timestamp \in ClockReads(clock) :
     \E current_time \in DriftReads(timestamp) :
       /\ response' = StatusResponse(sites, timestamp, current_time)
       /\ clock' = current_time
  /\ UNCHANGED <<config, sites, status_history, incidents, seq, results, network>>
  /\ UNCHANGED aux

\* The handler's return: the body leaves the process.
ReturnResponse ==
  /\ response # NoResponse
  /\ response' = NoResponse
  /\ UNCHANGED <<config, sites, status_history, incidents, seq, clock, results, network>>
  /\ UNCHANGED aux

Next ==
  \/ InitializeSites
  \/ CheckAllSites
  \/ UpdateSiteStatus
  \/ ApiStatus
  \/ ReturnResponse

Spec == Init /\ [][Next]_vars

\* ------------------------------------------------------------- properties
\* Incidents of one sites row (incidents.site_id = sites.id).
IncidentsOf(I, id) == {inc \in I : inc.site_id = id}
UnresolvedOf(I, id) == {inc \in I : inc.site_id = id /\ ~inc.resolved}

\* A step applies a probe result to the row `before`, giving `after`.
ProbeApplied(before, after) ==
  /\ before \in sites
  /\ after \in sites'
  /\ before.id = after.id
  /\ seq'.status_history = seq.status_history + 1

\* C1: in every reachable state each site (each row id that incidents refer
\* to) has at most one unresolved incident.
C1_AtMostOneUnresolved ==
  \A id \in {inc.site_id : inc \in incidents} :
    Cardinality(UnresolvedOf(incidents, id)) <= 1

\* C1 witness: a site went Online, Down, Online, Down: one incident of it is
\* resolved and a second one is open.
C1_Witness ==
  \E s \in sites :
    /\ Cardinality(UnresolvedOf(incidents, s.id)) = 1
    /\ \E inc \in IncidentsOf(incidents, s.id) : inc.resolved

\* C2: every probe that moves a site from Down to Online resolves exactly one
\* incident of that site that was unresolved before the probe (end_time set,
\* resolved = TRUE) and changes no incident of any other site.
C2_DownToOnlineResolvesOne ==
  [][ \A before \in sites : \A after \in sites' :
        ( /\ ProbeApplied(before, after)
          /\ before.status = "Down"
          /\ after.status = "Online" )
        => /\ Cardinality({ inc \in UnresolvedOf(incidents, before.id) :
                              \E now \in incidents' :
                                /\ now.id = inc.id
                                /\ now.resolved
                                /\ now.end_time # NULL }) = 1
           /\ \A inc \in incidents : inc.site_id # before.id => inc \in incidents'
    ]_vars

\* C3: every resolved incident stores duration = end_time - start_time.
C3_DurationIsEndMinusStart ==
  \A inc \in incidents :
    inc.resolved => inc.duration = inc.end_time - inc.start_time

\* C4: every probe that moves a site from Online or Unknown to Down creates
\* exactly one new incident of that site, unresolved, whose start_time is the
\* time of the probe; a probe that leaves the status unchanged creates none.
C4_DownTransitionCreatesOne ==
  [][ \A before \in sites : \A after \in sites' :
        ProbeApplied(before, after)
        => LET created == {inc \in incidents' :
                             \A old \in incidents : old.id # inc.id}
           IN  /\ ( before.status \in {"Online", "Unknown"} /\ after.status = "Down" )
                  => /\ Cardinality(created) = 1
                     /\ \A inc \in created :
                          /\ inc.site_id = before.id
                          /\ ~inc.resolved
                          /\ inc.start_time = after.last_change
               /\ before.status = after.status => created = {}
    ]_vars

\* The status_history rows of one sites row, and the time charged to `status`
\* by them: each interval between two consecutive rows goes to the status of
\* the earlier row.
HistoryOf(H, id) == {h \in H : h.site_id = id}

Latest(H) == CHOOSE h \in H : \A o \in H : o.id <= h.id

RECURSIVE Charged(_, _)
Charged(H, status) ==
  IF Cardinality(H) <= 1 THEN 0
  ELSE LET last == Latest(H)
           prev == Latest(H \ {last})
       IN  (IF prev.status = status THEN last.checked_at - prev.checked_at ELSE 0)
           + Charged(H \ {last}, status)

\* C5: after any sequence of probe results applied to a site, total_uptime and
\* total_downtime are the sums of the intervals between consecutive probes that
\* began Online, respectively Down; the interval before the first probe (status
\* Unknown) is in neither, so their sum is the time from first to last probe.
C5_TotalsAreChargedIntervals ==
  \A s \in sites :
    LET H == HistoryOf(status_history, s.id)
    IN  /\ s.total_uptime = Charged(H, "Online")
        /\ s.total_downtime = Charged(H, "Down")
        /\ H # {} =>
             s.total_uptime + s.total_downtime
               = Latest(H).checked_at
                 - (CHOOSE h \in H : \A o \in H : h.id <= o.id).checked_at

\* C5 witness: a site seeded before its first probe, probed three times, with
\* time charged to both buckets.
C5_Witness ==
  \E s \in sites :
    LET H == HistoryOf(status_history, s.id)
    IN  /\ Cardinality(H) >= 3
        /\ s.total_uptime > 0
        /\ s.total_downtime > 0
        /\ \A h \in H : h.checked_at > 0

\* C6: applying a probe result never decreases total_uptime or total_downtime
\* and increases at most one of them: total_uptime only if the status before
\* the probe was Online, total_downtime only if it was Down, neither if it was
\* Unknown, whatever the new status is.
C6_OnlyPreviousStatusCharged ==
  [][ \A before \in sites : \A after \in sites' :
        ProbeApplied(before, after)
        => /\ after.total_uptime >= before.total_uptime
           /\ after.total_downtime >= before.total_downtime
           /\ after.total_uptime > before.total_uptime => before.status = "Online"
           /\ after.total_downtime > before.total_downtime => before.status = "Down"
           /\ before.status = "Online" =>
                after.total_uptime - before.total_uptime
                  = after.last_checked - before.last_change
           /\ before.status = "Down" =>
                after.total_downtime - before.total_downtime
                  = after.last_checked - before.last_change
    ]_vars

\* C6 witness: a site now Online whose only charged time is downtime, and a
\* site now Down whose only charged time is uptime.
C6_Witness ==
  /\ \E s \in sites :
       s.status = "Online" /\ s.total_downtime > 0 /\ s.total_uptime = 0
  /\ \E s \in sites :
       s.status = "Down" /\ s.total_uptime > 0 /\ s.total_downtime = 0

\* C7: a re-seed from the same configuration leaves every existing site as it
\* was: status, last_change, total_uptime, total_downtime, response_time and
\* status_code are kept.
C7_ReseedKeepsSites ==
  [][ seq'.sites > seq.sites
      => \A before \in sites :
           \E after \in sites' :
             /\ after.name = before.name
             /\ after.status = before.status
             /\ after.last_change = before.last_change
             /\ after.total_uptime = before.total_uptime
             /\ after.total_downtime = before.total_downtime
             /\ after.response_time = before.response_time
             /\ after.status_code = before.status_code
    ]_vars

\* C8: after any number of seedings the registry holds exactly one row per
\* configured site name, and no other row.
C8_OneRowPerConfiguredSite ==
  /\ \A i \in 1 .. Len(config) :
       Cardinality(SelectSiteByName(sites, config[i].name)) = 1
  /\ \A r \in sites : \E i \in 1 .. Len(config) : config[i].name = r.name

\* C8 witness: the store was seeded a second time after probe results had
\* been applied.
C8_Witness ==
  /\ seq.sites > Len(config)
  /\ status_history # {}
  /\ Len(config) = 2

\* The value of a printed percentage lies in [0, 100].
PercentInRange(p) ==
  /\ p.decimals \in {2, 3}
  /\ 0 <= p.digits
  /\ p.digits <= 100 * (IF p.decimals = 3 THEN 1000 ELSE 100)

\* C9 as stated: every reported uptime_percent lies in [0,100], and a site that
\* has never been probed is reported with status "Unknown" and uptime_percent
\* "100.00%".
C9_NeverProbedReports100_00 ==
  response.endpoint = "status" =>
    \A name \in DOMAIN response.sites :
      LET e == response.sites[name]
      IN  /\ PercentInRange(e.uptime_percent)
          /\ e.last_checked = Never =>
               /\ e.status = "Unknown"
               /\ e.uptime_percent = [digits |-> 10000, decimals |-> 2]

\* C9 amended: every reported uptime_percent lies in [0,100], and a site that
\* has never been probed is reported with status "Unknown" and uptime_percent
\* "100.000%" (three decimals are printed).
C9_NeverProbedReports100_000 ==
  response.endpoint = "status" =>
    \A name \in DOMAIN response.sites :
      LET e == response.sites[name]
      IN  /\ PercentInRange(e.uptime_percent)
          /\ e.last_checked = Never =>
               /\ e.status = "Unknown"
               /\ e.uptime_percent = [digits |-> 100000, decimals |-> 3]

\* C9 witness: a snapshot taken after time has passed since seeding, with one
\* site never probed (100%) and another one Down since its first probe (0%).
C9_Witness ==
  /\ response.endpoint = "status"
  /\ \E name \in DOMAIN response.sites :
       /\ response.sites[name].last_checked = Never
       /\ \E r \in sites : r.name = name /\ r.last_change < clock
  /\ \E name \in DOMAIN response.sites :
       /\ response.sites[name].status = "Down"
       /\ response.sites[name].uptime_percent.digits = 0

\* The text of a duration below one minute.
SecondsText(n) == <<[n |-> n, u |-> "s"]>>

\* C10: a snapshot reports, per site, the persisted totals plus the time since
\* last_change added to the bucket of the current status only (nothing when
\* Unknown), and uptime_percent = display_uptime / (display_uptime +
\* display_downtime) * 100, or 100 when the denominator is 0.  Scenario B in
\* units of 10 s: Online at 0, Down at 3, snapshot at 5 gives 3, 2 and 60%.
\* While a status response is being returned, clock is the handler's
\* current_time.
C10_SnapshotTotals ==
  response.endpoint = "status" =>
    \A r \in sites :
      LET e == response.sites[r.name]
          elapsed == clock - r.last_change
          up == r.total_uptime + (IF r.status = "Online" THEN elapsed ELSE 0)
          down == r.total_downtime + (IF r.status = "Down" THEN elapsed ELSE 0)
          miss == e.uptime_percent.digits * (up + down) - up * 100000
          H == HistoryOf(status_history, r.id)
      IN  /\ (up < 60 => e.uptime = SecondsText(up))
          /\ (down < 60 => e.downtime = SecondsText(down))
          /\ IF up + down = 0
             THEN e.uptime_percent.digits = 100000
             ELSE 2 * miss <= up + down /\ -2 * miss <= up + down
          /\ ( /\ clock = 5
               /\ {<<h.checked_at, h.status>> : h \in H} = {<<0, "Online">>, <<3, "Down">>}
               /\ Cardinality(H) = 2 )
             => /\ e.uptime = SecondsText(3)
                /\ e.downtime = SecondsText(2)
                /\ e.uptime_percent.digits = 60000

\* C10 witness: Scenario B, the snapshot taken at 5 of a site Online at 0 and
\* Down at 3.
C10_Witness ==
  /\ response.endpoint = "status"
  /\ clock = 5
  /\ \E r \in sites :
       LET H == HistoryOf(status_history, r.id)
       IN  /\ {<<h.checked_at, h.status>> : h \in H} = {<<0, "Online">>, <<3, "Down">>}
           /\ Cardinality(H) = 2
           /\ response.sites[r.name].uptime_percent.digits = 60000

\* C11: the snapshot's overall_status is "operational" if and only if every
\* site in the registry has status Online, and "degraded" otherwise; the
\* statuses listed in the snapshot are those of the registry.
C11_OperationalIffAllOnline ==
  response.endpoint = "status" =>
    /\ response.overall_status \in {"operational", "degraded"}
    /\ response.overall_status = "operational"
         <=> \A r \in sites : r.status = "Online"
    /\ \A r \in sites : response.sites[r.name].status = r.status
    /\ (\E r \in sites : r.status \in {"Down", "Unknown"})
         => response.overall_status = "degraded"

\* C11 witness: a snapshot of two sites, both Online, reported operational.
C11_Witness ==
  /\ response.endpoint = "status"
  /\ response.overall_status = "operational"
  /\ Cardinality(sites) = 2

\* ------------------------------------------------- specification: prober
\* check_site alone, over the status codes around the ends of the ranges, the
\* three kinds of failure and the expected_status a site may configure.
ProberCodes == {100, 199, 200, 204, 299, 300, 301, 304, 399, 400, 404, 500, 503}
ExpectedStatuses == {HTTP_OK, 301, 404, 503}

ProberOutcomes ==
  [kind : {"http"}, code : ProberCodes, latency : 0 .. MaxProbeLatency]
    \cup [kind : {"timeout", "client_error", "exception"}, code : {NULL},
          latency : 0 .. MaxProbeLatency]

ProberInit ==
  /\ config \in {<<[Alpha EXCEPT !.expected_status = e]>> : e \in ExpectedStatuses}
  /\ clock = 0
  /\ sites = InitializeSitesOn({}, 0, config, 0).sites
  /\ status_history = {}
  /\ incidents = {}
  /\ seq = [sites |-> InitializeSitesOn({}, 0, config, 0).seq,
            status_history |-> 0, incidents |-> 0]
  /\ results = <<>>
  /\ response = NoResponse
  /\ network = <<>>
  /\ AuxInit

\* One call of check_site for the configured site.
ProbeSite ==
  /\ results = <<>>
  /\ \E out \in ProberOutcomes :
       /\ network' = <<out>>
       /\ results' = <<CheckSite(config[1], out, clock)>>
       /\ clock' = clock + out.latency
  /\ UNCHANGED <<config, sites, status_history, incidents, seq, response>>
  /\ UNCHANGED aux

ProberNext == ProbeSite

SpecProber == ProberInit /\ [][ProberNext]_vars

\* C12 as stated: an HTTP response is classified Online exactly when its
\* status code is in [200,400), Down otherwise, and the result carries the
\* status code, for every site configuration.
C12_OnlineIff2xxOr3xx ==
  \A i \in DOMAIN results :
    network[i].kind = "http" =>
      /\ results[i].status = "Online"
           <=> (200 <= network[i].code /\ network[i].code < 400)
      /\ results[i].status \in {"Online", "Down"}
      /\ results[i].status_code = network[i].code

\* C12 amended: an HTTP response is classified Online exactly when its status
\* code is in [200,300) or equals the site's expected_status, Down otherwise,
\* and the result carries the status code.
C12_OnlineIff2xxOrExpected ==
  \A i \in DOMAIN results :
    network[i].kind = "http" =>
      /\ results[i].status = "Online"
           <=> \/ (200 <= network[i].code /\ network[i].code < 300)
               \/ network[i].code = config[i].expected_status
      /\ results[i].status \in {"Online", "Down"}
      /\ results[i].status_code = network[i].code

\* C12 witness: a 404 answered to a site that expects 404 is Online, with the
\* code carried.
C12_Witness ==
  /\ results # <<>>
  /\ network[1].kind = "http"
  /\ network[1].code = 404
  /\ config[1].expected_status = 404
  /\ results[1].status = "Online"
  /\ results[1].status_code = 404

\* C13 as stated: every probe failure is returned as a result classified Down
\* with status_code null and an error describing the failure, "timeout" for an
\* elapsed timeout.
C13_FailureIsDownWithTimeoutText ==
  \A i \in DOMAIN results :
    network[i].kind # "http" =>
      /\ results[i].status = "Down"
      /\ results[i].status_code = NULL
      /\ results[i].error # "None"
      /\ network[i].kind = "timeout" => results[i].error = "timeout"

\* C13 amended: every probe failure is returned as a result classified Down
\* with status_code null and an error describing the failure: "Request
\* timeout" for an elapsed timeout, "Client error: ..." for a connection, DNS
\* or TLS error, "Unexpected error: ..." for any other exception.
C13_FailureIsDownWithError ==
  \A i \in DOMAIN results :
    network[i].kind # "http" =>
      /\ results[i].status = "Down"
      /\ results[i].status_code = NULL
      /\ results[i].name = config[i].name
      /\ network[i].kind = "timeout" => results[i].error = "Request timeout"
      /\ network[i].kind = "client_error" => results[i].error = "Client error"
      /\ network[i].kind = "exception" => results[i].error = "Unexpected error"

\* C13 witness: a request that timed out after a positive time has its result.
C13_Witness ==
  /\ results # <<>>
  /\ network[1].kind = "timeout"
  /\ network[1].latency > 0
  /\ results[1].status = "Down"
  /\ results[1].response_time = network[1].latency

\* The status_history rows of one sites row in the order they were written.
RECURSIVE InOrder(_)
InOrder(H) ==
  IF H = {} THEN <<>> ELSE Append(InOrder(H \ {Latest(H)}), Latest(H))

\* C14: a site probed Online, then Down, then Online on three consecutive
\* probes has afterwards exactly one incident; it is resolved, none is left
\* unresolved, and its duration is the time from the Down probe to the Online
\* probe that followed (the resolving handler reads the clock once more after
\* stamping the probe, so end_time is within that drift of the Online probe).
C14_FlapGivesOneResolvedIncident ==
  \A s \in sites :
    LET h == InOrder(HistoryOf(status_history, s.id))
    IN  ( /\ Len(h) = 3
          /\ h[1].status = "Online"
          /\ h[2].status = "Down"
          /\ h[3].status = "Online" )
        => /\ Cardinality(IncidentsOf(incidents, s.id)) = 1
           /\ UnresolvedOf(incidents, s.id) = {}
           /\ \A inc \in IncidentsOf(incidents, s.id) :
                /\ inc.resolved
                /\ inc.duration = inc.end_time - h[2].checked_at
                /\ inc.end_time >= h[3].checked_at
                /\ inc.end_time <= h[3].checked_at + MaxDrift
                /\ inc.start_time >= h[2].checked_at
                /\ inc.start_time <= h[2].checked_at + MaxDrift

\* C14 witness: a site flapped Online, Down, Online with time passing between
\* the probes, and its one incident has a positive duration.
C14_Witness ==
  \E s \in sites :
    LET h == InOrder(HistoryOf(status_history, s.id))
    IN  /\ Len(h) = 3
        /\ h[1].status = "Online"
        /\ h[2].status = "Down"
        /\ h[3].status = "Online"
        /\ h[3].checked_at > h[2].checked_at
        /\ \E inc \in IncidentsOf(incidents, s.id) : inc.resolved /\ inc.duration > 0

\* ------------------------------------------------ specification: scheduler
\* StatusMonitor.monitor_loop in its thread, with stop() called from another
\* thread.  loop.pc is the thread's position: "test" at `while self.running`,
\* "sweep" inside run_until_complete(check_all_sites()), "sleep" at
\* time.sleep(check_interval), "pause" at time.sleep(30), "exited" after the
\* while.  The store is left alone: only the timing of the loop is followed.
CheckIntervals == {10, DefaultCheckInterval}
SweepDurations == {0, 5, 60, 75}

LoopInit ==
  /\ config \in Configs
  /\ clock = 0
  /\ sites = InitializeSitesOn({}, 0, config, 0).sites
  /\ status_history = {}
  /\ incidents = {}
  /\ seq = [sites |-> InitializeSitesOn({}, 0, config, 0).seq,
            status_history |-> 0, incidents |-> 0]
  /\ results = <<>>
  /\ response = NoResponse
  /\ network = <<>>
  /\ config_file = ValidFile(config)
  /\ tracker = TrackerIdle
  /\ fault = "none"
  /\ \E ci \in CheckIntervals :
       loop = [ pc |-> "test", running |-> TRUE, check_interval |-> ci,
                cycles |-> 0, start_time |-> NULL, cycle_duration |-> NULL,
                prev_start |-> NULL, prev_duration |-> NULL,
                slept |-> NULL, errors |-> 0 ]

\* while self.running: ... start_time = time.time(); run_until_complete(...)
StartCycle ==
  /\ loop.pc = "test"
  /\ loop.running
  /\ loop.cycles < MaxCycles
  /\ loop' = [loop EXCEPT !.pc = "sweep", !.cycles = @ + 1,
                          !.start_time = clock, !.cycle_duration = NULL,
                          !.prev_start = loop.start_time,
                          !.prev_duration = loop.cycle_duration]
  /\ UNCHANGED clock

\* while self.running: the test fails and monitor_loop returns.
ExitLoop ==
  /\ loop.pc = "test"
  /\ ~loop.running
  /\ loop' = [loop EXCEPT !.pc = "exited"]
  /\ UNCHANGED clock

\* check_all_sites returned after d seconds: cycle_duration is computed (and
\* only logged), then `if self.running` chooses the sleep.
SweepReturns ==
  /\ loop.pc = "sweep"
  /\ \E d \in SweepDurations :
       /\ clock' = clock + d
       /\ loop' = [loop EXCEPT !.pc = IF loop.running THEN "sleep" ELSE "test",
                               !.cycle_duration = d]

\* Mutant: the handler leaves the loop, as the KeyboardInterrupt branch does.
AfterExceptionBreak(l) == [l EXCEPT !.pc = "exited", !.errors = @ + 1]

\* except Exception as e: logger.error(...); time.sleep(30)
AfterException(l) == [l EXCEPT !.pc = "pause", !.errors = @ + 1]

\* An exception escapes the cycle after d seconds.
SweepRaises ==
  /\ loop.pc = "sweep"
  /\ \E d \in SweepDurations :
       /\ clock' = clock + d
       /\ loop' = AfterException(loop)

\* time.sleep(check_interval)
Sleep ==
  /\ loop.pc = "sleep"
  /\ clock' = clock + loop.check_interval
  /\ loop' = [loop EXCEPT !.pc = "test", !.slept = loop.check_interval]

\* time.sleep(30)
Pause ==
  /\ loop.pc = "pause"
  /\ clock' = clock + ErrorPause
  /\ loop' = [loop EXCEPT !.pc = "test", !.slept = ErrorPause]

\* StatusMonitor.stop, from another thread: self.running = False
Stop ==
  /\ loop.running
  /\ loop.pc # "exited"
  /\ loop' = [loop EXCEPT !.running = FALSE]
  /\ UNCHANGED clock

LoopNext ==
  /\ \/ StartCycle
     \/ ExitLoop
     \/ SweepReturns
     \/ SweepRaises
     \/ Sleep
     \/ Pause
     \/ Stop
  /\ UNCHANGED <<config, sites, status_history, incidents, seq, results,
                 response, network, config_file, tracker, fault>>

SpecLoop == LoopInit /\ [][LoopNext]_vars

\* C15: each cycle that follows a completed sweep of d seconds starts one
\* check_interval after the start of that sweep when d < check_interval
\* (the sleep was check_interval - d), and right at its end when
\* d >= check_interval (no sleep).
C15_CycleStartsOneIntervalAfterStart ==
  ( /\ loop.pc = "sweep"
    /\ loop.prev_duration # NULL )
  => /\ loop.start_time
          = IF loop.prev_duration < loop.check_interval
            THEN loop.prev_start + loop.check_interval
            ELSE loop.prev_start + loop.prev_duration
     /\ loop.slept
          = IF loop.prev_duration < loop.check_interval
            THEN loop.check_interval - loop.prev_duration
            ELSE 0

\* C16: an exception that escapes a monitoring cycle does not end the loop.
\* It is logged and the thread pauses, the pause lasts ErrorPause seconds and
\* leads back to the loop's test, a running loop at its test starts a cycle,
\* and the loop is only ever left after stop() cleared the running flag.
C16_ExceptionPausesAndLoopContinues ==
  [][ /\ (loop.pc = "sweep" /\ loop'.errors = loop.errors + 1)
         => loop'.pc = "pause"
      /\ (loop.pc = "pause" /\ loop'.pc # "pause")
         => (loop'.pc = "test" /\ clock' = clock + ErrorPause)
      /\ (loop.pc = "test" /\ loop.running /\ loop'.pc # "test")
         => (loop'.pc = "sweep" /\ loop'.cycles = loop.cycles + 1)
      /\ loop'.pc = "exited" => ~loop.running
    ]_vars

\* C16 witness: after a cycle that raised, and with no shutdown requested, a
\* later cycle is running, ErrorPause seconds or more after the first start.
C16_Witness ==
  /\ loop.pc = "sweep"
  /\ loop.running
  /\ loop.errors > 0
  /\ loop.cycles >= 2
  /\ loop.prev_duration = NULL
  /\ loop.start_time >= loop.prev_start + ErrorPause

\* --------------------------------------- specification: tracker statements
\* _update_site_status statement by statement.  Every statement runs on a
\* connection of its own in autocommit mode, so each is one step, and requests
\* of the query service (another thread) may run between two of them.
\* execute_query and execute_update swallow a failure of the store and return
\* [] or 0.  tracker.pc is the statement about to run: "update" (UPDATE
\* sites), "history" (INSERT INTO status_history), "handle" (the statement of
\* _handle_status_change); tracker.before is the store when the application
\* of the result began, tracker.failed whether a statement of it has failed.
\* `fault` names the failure injected so far; one run injects at most one.
Faults == {"task_exception", "raise", "select", "update_sites",
           "insert_history", "incident"}

Store == [sites |-> sites, status_history |-> status_history, incidents |-> incidents]

\* Mutant: the failure ends the loop over the results of the cycle.
AfterUpdateFailureAbort(rs) == <<>>

\* check_all_sites: `continue` for a task that failed, and the except clause
\* inside the for loop: the loop goes on with the next result.
AfterUpdateFailure(rs) == Tail(rs)

\* api_incidents: the unresolved incidents joined with their sites rows.
IncidentsResponse(S, I, now) ==
  LET rows == {<<inc, s>> \in I \X S : inc.site_id = s.id /\ ~inc.resolved}
  IN  [ endpoint |-> "incidents",
        incidents |-> { [ id |-> p[1].id, site_name |-> p[2].name,
                          start_time |-> p[1].start_time,
                          duration |-> now - p[1].start_time,
                          description |-> p[1].description ] : p \in rows },
        count |-> Cardinality(rows) ]

StepsInit == Init

\* for result in results: the entry is an exception, logged and skipped.
SkipFailedTask ==
  /\ response = NoResponse
  /\ results # <<>>
  /\ tracker.pc = "idle"
  /\ fault = "none"
  /\ fault' = "task_exception"
  /\ results' = AfterUpdateFailure(results)
  /\ network' = Tail(network)
  /\ UNCHANGED <<config, sites, status_history, incidents, seq, clock, response,
                 config_file, loop, tracker>>

\* _update_site_status raises before it reaches the store; check_all_sites
\* logs "Failed to update" and goes on.
UpdateRaises ==
  /\ response = NoResponse
  /\ results # <<>>
  /\ tracker.pc = "idle"
  /\ fault = "none"
  /\ fault' = "raise"
  /\ results' = AfterUpdateFailure(results)
  /\ network' = Tail(network)
  /\ UNCHANGED <<config, sites, status_history, incidents, seq, clock, response,
                 config_file, loop, tracker>>

\* current_time = time.time(); SELECT * FROM sites WHERE name = ?
TrackerSelect ==
  /\ response = NoResponse
  /\ results # <<>>
  /\ tracker.pc = "idle"
  /\ \E current_time \in DriftReads(clock) :
     \E failed \in IF fault = "none" THEN BOOLEAN ELSE {FALSE} :
       LET site_data == IF failed THEN {}
                        ELSE SelectSiteByName(sites, Head(results).name)
       IN  /\ clock' = current_time
           /\ fault' = IF failed THEN "select" ELSE fault
           /\ IF site_data = {}
              THEN /\ results' = Tail(results)
                   /\ network' = Tail(network)
                   /\ UNCHANGED tracker
              ELSE /\ \E site \in site_data :
                        tracker' = [ pc |-> "update", site |-> site,
                                     current_time |-> current_time,
                                     failed |-> FALSE, before |-> Store ]
                   /\ UNCHANGED <<results, network>>
  /\ UNCHANGED <<config, sites, status_history, incidents, seq, response,
                 config_file, loop>>

\* UPDATE sites SET ... WHERE name = ?
TrackerUpdateSites ==
  /\ response = NoResponse
  /\ tracker.pc = "update"
  /\ \E failed \in IF fault = "none" THEN BOOLEAN ELSE {FALSE} :
       /\ fault' = IF failed THEN "update_sites" ELSE fault
       /\ tracker' = [tracker EXCEPT !.pc = "history", !.failed = @ \/ failed]
       /\ sites' = IF failed THEN sites
                   ELSE { IF r.name = Head(results).name
                          THEN UpdateSiteRow(r, Head(results), tracker.current_time)
                          ELSE r : r \in sites }
  /\ UNCHANGED <<config, status_history, incidents, seq, clock, results, response,
                 network, config_file, loop>>

\* INSERT INTO status_history, then `if previous_status != result['status']`
\* and the tests of _handle_status_change up to its statement.
TrackerInsertHistory ==
  /\ response = NoResponse
  /\ tracker.pc = "history"
  /\ \E failed \in IF fault = "none" THEN BOOLEAN ELSE {FALSE} :
       /\ fault' = IF failed THEN "insert_history" ELSE fault
       /\ IF failed
          THEN UNCHANGED <<status_history, seq>>
          ELSE /\ status_history' = status_history \cup
                    {NewHistoryRow(seq.status_history + 1, tracker.site,
                                   Head(results), tracker.current_time)}
               /\ seq' = [seq EXCEPT !.status_history = @ + 1]
       /\ IF ReadsClockAgain(tracker.site, Head(results))
          THEN /\ tracker' = [tracker EXCEPT !.pc = "handle", !.failed = @ \/ failed]
               /\ UNCHANGED <<results, network>>
          ELSE /\ tracker' = TrackerIdle
               /\ results' = Tail(results)
               /\ network' = Tail(network)
  /\ UNCHANGED <<config, sites, incidents, clock, response, config_file, loop>>

\* _handle_status_change: INSERT INTO incidents or UPDATE incidents.
TrackerHandle ==
  /\ response = NoResponse
  /\ tracker.pc = "handle"
  /\ \E t \in DriftReads(clock) :
     \E failed \in IF fault = "none" THEN BOOLEAN ELSE {FALSE} :
       LET handled == HandleStatusChange(incidents, seq.incidents, tracker.site,
                                         tracker.site.status, Head(results), t)
       IN  /\ clock' = t
           /\ fault' = IF failed THEN "incident" ELSE fault
           /\ incidents' = IF failed THEN incidents ELSE handled.incidents
           /\ seq' = IF failed THEN seq ELSE [seq EXCEPT !.incidents = handled.seq]
  /\ tracker' = TrackerIdle
  /\ results' = Tail(results)
  /\ network' = Tail(network)
  /\ UNCHANGED <<config, sites, status_history, response, config_file, loop>>

\* GET /api/incidents
ApiIncidents ==
  /\ response = NoResponse
  /\ \E now \in DriftReads(clock) :
       /\ response' = IncidentsResponse(sites, incidents, now)
       /\ clock' = now
  /\ UNCHANGED <<config, sites, status_history, incidents, seq, results, network>>
  /\ UNCHANGED aux

\* A cycle of the statement-level specification.
StepsCheckAllSites ==
  /\ seq.status_history + Len(config) <= MaxStepsHistory
  /\ CheckAllSites

StepsNext ==
  \/ StepsCheckAllSites
  \/ SkipFailedTask
  \/ UpdateRaises
  \/ TrackerSelect
  \/ TrackerUpdateSites
  \/ TrackerInsertHistory
  \/ TrackerHandle
  \/ ApiStatus
  \/ ApiIncidents
  \/ ReturnResponse

SpecSteps == StepsInit /\ [][StepsNext]_vars

\* C17: within a cycle the results are consumed one at a time whatever
\* happens to one of them: a step that consumes results consumes exactly the
\* first, and a step in which a task's exception is skipped, the update raises
\* or a statement of the store fails leaves every later result of the cycle
\* in place to be applied.
C17_FailureKeepsRemainingResults ==
  [][ /\ (results # <<>> /\ results' # results) => results' = Tail(results)
      /\ fault' # fault => (results' = results \/ results' = Tail(results))
      /\ (fault' # fault /\ tracker.pc \in {"update", "history"})
           => (tracker'.pc # "idle" \/ results' = Tail(results))
    ]_vars

\* C17 witness: in a cycle over two sites the first site's result was lost to
\* a failure (its row was never updated) and the second site's result has
\* been applied.
C17_Witness ==
  /\ fault \in {"task_exception", "raise", "select"}
  /\ results = <<>>
  /\ tracker.pc = "idle"
  /\ Len(config) = 2
  /\ \E a \in sites : a.name = config[1].name /\ a.status = "Unknown"
  /\ \E b \in sites :
       /\ b.name = config[2].name
       /\ b.status # "Unknown"
       /\ HistoryOf(status_history, b.id) # {}

\* C18: when a statement of the store fails while a probe result is applied to
\* a site, the application ends with the sites rows, the history and the
\* incidents as they were before it began.
C18_FailedUpdateLeavesNothing ==
  [][ ( /\ tracker.pc # "idle"
        /\ tracker'.pc = "idle"
        /\ (tracker.failed \/ fault' # fault) )
      => /\ sites' = tracker.before.sites
         /\ status_history' = tracker.before.status_history
         /\ incidents' = tracker.before.incidents
    ]_vars

\* Some statement of the sequence applied for one result has taken effect and
\* another is still to run.
PartlyApplied ==
  /\ tracker.pc \in {"history", "handle"}
  /\ Store # tracker.before

\* C20: no status or incidents response is produced from a store in which
\* only part of the tracker's sequence for one result has taken effect (no
\* failure of the store being involved).
C20_ReadsSeeWholeUpdates ==
  (response.endpoint # "none" /\ fault = "none") => ~PartlyApplied

\* ------------------------------------------------- specification: startup
\* The start of the process from the configuration file it finds, over an
\* empty store, followed by monitoring cycles and status requests.
\* config_file.kind is "missing" (no file), "unparsable" (yaml.safe_load
\* raises or gives no mapping), "no_sites_key", "sites_not_list",
\* "site_without_url" (the three failures of _validate_config) or "valid";
\* loop.pc is "not_started" or "serving", loop.file the file found at start.
DefaultSites ==
  << [name |-> "Google", url |-> "https://www.google.com", expected_status |-> HTTP_OK],
     [name |-> "GitHub", url |-> "https://www.github.com", expected_status |-> HTTP_OK],
     [name |-> "Stack Overflow", url |-> "https://stackoverflow.com",
      expected_status |-> HTTP_OK] >>

InvalidFile(kind) == [kind |-> kind, sites |-> <<>>]

ConfigFiles ==
  {InvalidFile(k) : k \in {"missing", "unparsable", "no_sites_key",
                           "sites_not_list", "site_without_url"}}
    \cup {ValidFile(cfg) : cfg \in Configs \cup {<<>>}}

\* ConfigManager._validate_config: TRUE when it returns without raising.  An
\* empty list of sites passes.
ValidateConfig(file) == file.kind = "valid"

\* ConfigManager._load_config followed by get_sites: a missing file is first
\* written with the default configuration; any failure to read or validate is
\* logged and the default configuration returned.
LoadConfig(file) ==
  IF file.kind = "missing" THEN DefaultSites
  ELSE IF ValidateConfig(file) THEN file.sites
  ELSE DefaultSites

ConfigInit ==
  /\ config_file \in ConfigFiles
  /\ config = <<>>
  /\ clock = 0
  /\ sites = {}
  /\ status_history = {}
  /\ incidents = {}
  /\ seq = [sites |-> 0, status_history |-> 0, incidents |-> 0]
  /\ results = <<>>
  /\ response = NoResponse
  /\ network = <<>>
  /\ loop = [pc |-> "not_started", file |-> config_file]
  /\ tracker = TrackerIdle
  /\ fault = "none"

\* StatusMonitorApp.__init__ and start: the configuration is loaded, the
\* registry seeded from it, the monitor thread and the server started.
Startup ==
  /\ loop.pc = "not_started"
  /\ config' = LoadConfig(config_file)
  /\ config_file' = IF config_file.kind = "missing"
                    THEN ValidFile(DefaultSites) ELSE config_file
  /\ \E t \in ClockReads(clock) :
       /\ sites' = InitializeSitesOn(sites, seq.sites, config', t).sites
       /\ seq' = [seq EXCEPT !.sites = InitializeSitesOn(sites, seq.sites, config', t).seq]
       /\ clock' = t
  /\ loop' = [loop EXCEPT !.pc = "serving"]
  /\ UNCHANGED <<status_history, incidents, results, response, network, tracker, fault>>

\* check_all_sites of the started process; it returns at once when no site
\* is configured.
ConfigCheckAllSites ==
  /\ loop.pc = "serving"
  /\ config # <<>>
  /\ CheckAllSites

\* GET /api/status of the started process.
ConfigApiStatus ==
  /\ loop.pc = "serving"
  /\ ApiStatus

ConfigNext ==
  \/ Startup
  \/ ConfigCheckAllSites
  \/ UpdateSiteStatus
  \/ ConfigApiStatus
  \/ ReturnResponse

SpecConfig == ConfigInit /\ [][ConfigNext]_vars

\* C19: a process that is serving was started from a configuration file that
\* exists, is well-formed and lists at least one site, and monitors exactly
\* the sites of that file; no status response reports "operational" over an
\* empty set of sites.
C19_BadConfigNeverServes ==
  /\ loop.pc = "serving"
       => /\ loop.file.kind = "valid"
          /\ loop.file.sites # <<>>
          /\ config = loop.file.sites
  /\ (response.endpoint = "status" /\ response.overall_status = "operational")
       => (sites # {} /\ config # <<>>)

\* ------------------------------------- specification: cycles and shutdown
\* monitor_loop around check_all_sites, site by site, with stop() called from
\* another thread.  loop.pc is "test" (while self.running), "sweep" (inside
\* check_all_sites), "sleep" or "exited"; loop.base is the number of
\* status_history rows written when the cycle began, loop.start_time the
\* start_time of monitor_loop.  check_all_sites never reads self.running.
ShutdownInit ==
  /\ config \in Configs
  /\ clock = 0
  /\ sites = InitializeSitesOn({}, 0, config, 0).sites
  /\ status_history = {}
  /\ incidents = {}
  /\ seq = [sites |-> InitializeSitesOn({}, 0, config, 0).seq,
            status_history |-> 0, incidents |-> 0]
  /\ results = <<>>
  /\ response = NoResponse
  /\ network = <<>>
  /\ config_file = ValidFile(config)
  /\ tracker = TrackerIdle
  /\ fault = "none"
  /\ loop = [pc |-> "test", running |-> TRUE, cycles |-> 0,
             base |-> 0, start_time |-> 0]

\* while self.running: ... start_time = time.time()
BeginCycle ==
  /\ loop.pc = "test"
  /\ loop.running
  /\ \E start_time \in DriftReads(clock) :
       /\ clock' = start_time
       /\ loop' = [loop EXCEPT !.pc = "sweep", !.cycles = @ + 1,
                               !.base = seq.status_history,
                               !.start_time = start_time]
  /\ UNCHANGED <<config, sites, status_history, incidents, seq, results,
                 response, network, config_file, tracker, fault>>

\* check_all_sites up to the return of asyncio.gather: every probe has run.
GatherProbes ==
  /\ loop.pc = "sweep"
  /\ seq.status_history = loop.base
  /\ CheckAllSites

\* check_all_sites, one turn of `for result in results`.
ApplyResult ==
  /\ loop.pc = "sweep"
  /\ UpdateSiteStatus

\* check_all_sites returns; `if self.running` chooses the sleep.
EndCycle ==
  /\ loop.pc = "sweep"
  /\ results = <<>>
  /\ seq.status_history = loop.base + Len(config)
  /\ loop' = [loop EXCEPT !.pc = IF loop.running THEN "sleep" ELSE "test"]
  /\ UNCHANGED <<config, sites, status_history, incidents, seq, clock, results,
                 response, network, config_file, tracker, fault>>

\* time.sleep(check_interval), in the units of the bounded clock.
SleepInterval ==
  /\ loop.pc = "sleep"
  /\ \E t \in ClockReads(clock) : clock' = t
  /\ loop' = [loop EXCEPT !.pc = "test"]
  /\ UNCHANGED <<config, sites, status_history, incidents, seq, results,
                 response, network, config_file, tracker, fault>>

\* StatusMonitor.stop from another thread, at any point of the cycle.
RequestStop ==
  /\ Stop
  /\ UNCHANGED <<config, sites, status_history, incidents, seq, results,
                 response, network, config_file, tracker, fault>>

\* The loop's test fails and monitor_loop returns.
LeaveLoop ==
  /\ ExitLoop
  /\ UNCHANGED <<config, sites, status_history, incidents, seq, results,
                 response, network, config_file, tracker, fault>>

ShutdownNext ==
  \/ BeginCycle
  \/ GatherProbes
  \/ ApplyResult
  \/ EndCycle
  \/ SleepInterval
  \/ RequestStop
  \/ LeaveLoop

SpecShutdown == ShutdownInit /\ [][ShutdownNext]_vars

\* C21: once shutdown is requested no probe is started and no tracker update
\* of a further site is begun: the rows of sites, the history and the pending
\* results of the cycle stay as they are until the loop has exited, and the
\* loop exits only on a request.
C21_NothingBegunAfterShutdownRequest ==
  [][ /\ ~loop.running
         => /\ sites' = sites
            /\ status_history' = status_history
            /\ (results = <<>> => results' = <<>>)
      /\ loop'.pc = "exited" => ~loop.running
    ]_vars

\* ------------------------------------------- specification: query service
\* The history, incidents and status requests over a store that monitoring
\* cycles and restarts of the process keep changing.  `fault` is "query"
\* while the pending response was built from a store read that failed.

\* Mutant: ORDER BY checked_at ASC.
OrderedBeforeAsc(a, b) == a.checked_at <= b.checked_at

\* ORDER BY checked_at DESC: row a may come before row b.
OrderedBefore(a, b) == a.checked_at >= b.checked_at

\* The answers the store may give to SELECT ... WHERE site_id = ? AND
\* checked_at > ? ORDER BY checked_at DESC LIMIT n: the order of rows with
\* equal checked_at, and which of them the limit keeps, are the store's choice.
SelectHistory(H, site_id, since_time, n) ==
  LET rows == {h \in H : h.site_id = site_id /\ h.checked_at > since_time}
      len == Min(n, Cardinality(rows))
  IN  { s \in [1 .. len -> rows] :
          /\ \A i, j \in 1 .. len : i < j => (s[i] # s[j] /\ OrderedBefore(s[i], s[j]))
          /\ \A h \in rows : (\A i \in 1 .. len : s[i] # h)
                               => \A i \in 1 .. len : OrderedBefore(s[i], h) }

\* api_site_history: the entry made of one row.
HistoryEntry(record) ==
  [ status |-> record.status, response_time |-> record.response_time,
    status_code |-> record.status_code, timestamp |-> record.checked_at ]

\* api_site_history: the body, `history` being the rows the store returned.
HistoryResponse(site_name, history) ==
  [ endpoint |-> "history", code |-> 200, site |-> site_name,
    history |-> [i \in 1 .. Len(history) |-> HistoryEntry(history[i])],
    count |-> Len(history) ]

SiteNotFound == [endpoint |-> "history", code |-> 404, error |-> "Site not found"]

\* Mutant: the handler prunes the rows that fell out of its window.
HistoryAfterRequestPruned(H, since_time) == {h \in H : h.checked_at > since_time}

\* The status_history table after api_site_history has run: the handler only
\* issues SELECT statements.
HistoryAfterRequest(H, since_time) == H

\* GET /api/history/<site_name>
ApiSiteHistory ==
  /\ response = NoResponse
  /\ \E site_name \in {r.name : r \in sites} \cup {"Unlisted"} :
     \E now \in ClockReads(clock) :
       LET site_data == SelectSiteByName(sites, site_name)
       IN  /\ clock' = now
           /\ status_history' = HistoryAfterRequest(status_history, now - HistoryWindow)
           /\ IF site_data = {}
              THEN response' = SiteNotFound
              ELSE \E site \in site_data :
                   \E history \in SelectHistory(status_history, site.id,
                                                now - HistoryWindow, HistoryLimit) :
                     response' = HistoryResponse(site_name, history)
  /\ UNCHANGED <<config, sites, incidents, seq, results, network>>
  /\ UNCHANGED aux

QueryNext ==
  \/ InitializeSites
  \/ CheckAllSites
  \/ UpdateSiteStatus
  \/ ApiSiteHistory
  \/ ApiIncidents
  \/ ReturnResponse

SpecQuery == Init /\ [][QueryNext]_vars

\* The rows of the site named in a pending history response that the request
\* could return: those of the last HistoryWindow units before the request
\* (the clock stands at the time the request read).
Eligible(site_name) ==
  {h \in status_history :
     /\ \E s \in sites : s.name = site_name /\ s.id = h.site_id
     /\ h.checked_at > clock - HistoryWindow}

AllOf(site_name) ==
  {h \in status_history : \E s \in sites : s.name = site_name /\ s.id = h.site_id}

\* The entries and rows with a given time.
EntriesAt(history, t) == {i \in DOMAIN history : history[i].timestamp = t}
RowsAt(H, t) == {h \in H : h.checked_at = t}

\* C22 as stated: a history response holds at most HistoryLimit records, as
\* many as the site has up to that limit, they are the most recent records of
\* the site, and they are ordered oldest first.
C22_MostRecentOldestFirst ==
  (response.endpoint = "history" /\ response.code = 200) =>
    LET history == response.history
        rows == AllOf(response.site)
    IN  /\ Len(history) = Min(HistoryLimit, Cardinality(rows))
        /\ \A i \in DOMAIN history : \E h \in rows : HistoryEntry(h) = history[i]
        /\ \A i, j \in DOMAIN history :
             i < j => history[i].timestamp <= history[j].timestamp
        /\ \A h \in rows : \A i \in DOMAIN history :
             h.checked_at > history[i].timestamp
               => Cardinality(EntriesAt(history, h.checked_at))
                    = Cardinality(RowsAt(rows, h.checked_at))

\* C22 amended: a history response holds at most HistoryLimit records, as
\* many as the site has in the last HistoryWindow up to that limit, they are
\* the most recent of those, and they are ordered newest first.
C22_MostRecentOfWindowNewestFirst ==
  (response.endpoint = "history" /\ response.code = 200) =>
    LET history == response.history
        rows == Eligible(response.site)
    IN  /\ Len(history) = Min(HistoryLimit, Cardinality(rows))
        /\ response.count = Len(history)
        /\ \A i \in DOMAIN history : \E h \in rows : HistoryEntry(h) = history[i]
        /\ \A i, j \in DOMAIN history :
             i < j => history[i].timestamp >= history[j].timestamp
        /\ \A h \in rows : \A i \in DOMAIN history :
             h.checked_at > history[i].timestamp
               => Cardinality(EntriesAt(history, h.checked_at))
                    = Cardinality(RowsAt(rows, h.checked_at))

\* C22 witness: the site has more rows in the window than the limit, and one
\* older than the window; the response holds HistoryLimit entries of
\* different times.
C22_Witness ==
  /\ response.endpoint = "history"
  /\ response.code = 200
  /\ Cardinality(Eligible(response.site)) > HistoryLimit
  /\ AllOf(response.site) # Eligible(response.site)
  /\ Len(response.history) = HistoryLimit
  /\ response.history[1].timestamp > response.history[HistoryLimit].timestamp

\* C23: an incidents response lists exactly the incidents that are unresolved
\* when the request is served, whatever their site, each with
\* duration = now - start_time.
C23_ListsExactlyUnresolved ==
  response.endpoint = "incidents" =>
    /\ {e.id : e \in response.incidents} = {inc.id : inc \in {i \in incidents : ~i.resolved}}
    /\ response.count = Cardinality({i \in incidents : ~i.resolved})
    /\ \A e \in response.incidents :
         \E inc \in incidents :
           /\ inc.id = e.id
           /\ ~inc.resolved
           /\ e.start_time = inc.start_time
           /\ e.duration = clock - inc.start_time

\* ---------------------------------------------- specification: outages
\* The status and health requests when a read of the store may fail and the
\* monitor thread may have been stopped: the cycles and stop() of the
\* shutdown specification, with the two requests served at any point.

\* DatabaseManager.execute_query: the rows returned; a failure of the store is
\* logged and answered with the empty list.
ExecuteQuery(rows, failed) == IF failed THEN {} ELSE rows

\* api_status over a store whose read may fail.
ApiStatusOnStore ==
  /\ response = NoResponse
  /\ \E failed \in BOOLEAN :
     \E timestamp \in DriftReads(clock) :
     \E current_time \in DriftReads(timestamp) :
       /\ response' = StatusResponse(ExecuteQuery(sites, failed), timestamp, current_time)
       /\ fault' = IF failed THEN "query" ELSE "none"
       /\ clock' = current_time
  /\ UNCHANGED <<config, sites, status_history, incidents, seq, results, network,
                 config_file, loop, tracker>>

\* api_health: the body returned when the try block completes.
HealthResponse(rows, timestamp, cfg) ==
  [ endpoint |-> "health", code |-> 200, status |-> "healthy",
    timestamp |-> timestamp, database |-> "connected",
    monitored_sites |-> Len(cfg) ]

\* GET /api/health: execute_query("SELECT 1"), whose result is not looked at.
ApiHealth ==
  /\ response = NoResponse
  /\ \E failed \in BOOLEAN :
     \E timestamp \in DriftReads(clock) :
       /\ response' = HealthResponse(ExecuteQuery({1}, failed), timestamp, config)
       /\ fault' = IF failed THEN "query" ELSE "none"
       /\ clock' = timestamp
  /\ UNCHANGED <<config, sites, status_history, incidents, seq, results, network,
                 config_file, loop, tracker>>

OutageNext ==
  \/ ShutdownNext
  \/ ApiStatusOnStore
  \/ ApiHealth
  \/ ReturnResponse

SpecOutage == ShutdownInit /\ [][OutageNext]_vars

\* C24: the status endpoint answers with an error exactly when its read of
\* the store failed: a body with the sites' statuses is never built from a
\* failed read, and an error is never returned after a read that succeeded
\* (a site that cannot be reached is in the body as Down).
C24_ErrorIffStoreReadFails ==
  /\ response.endpoint = "status" => fault = "none"
  /\ response.endpoint = "status_error" => fault = "query"

\* C25: a health response says "healthy" only if its query of the store
\* succeeded and the scheduler loop is running.
C25_HealthyOnlyIfStoreAndScheduler ==
  (response.endpoint = "health" /\ response.status = "healthy")
    => /\ fault = "none"
       /\ loop.running
       /\ loop.pc # "exited"

\* --------------------------------------- specification: requests and cycles
\* The four requests of the query service served at any point of the
\* monitoring cycles of a running process.
ReadOnlyNext ==
  \/ StepsCheckAllSites
  \/ UpdateSiteStatus
  \/ ApiStatusOnStore
  \/ ApiSiteHistory
  \/ ApiIncidents
  \/ ApiHealth
  \/ ReturnResponse

SpecReadOnly == Init /\ [][ReadOnlyNext]_vars

\* C26: a step that produces a response of the query service (status,
\* history, incidents or health) leaves the sites rows, the incidents and the
\* history as they are, and so does the probing of the sites; a step that
\* changes a sites row or an incident is the tracker applying the first
\* pending probe result, to the row of that result's site and to incidents of
\* that row.
C26_OnlyTrackerWrites ==
  [][ /\ (response = NoResponse /\ response' # NoResponse)
         => /\ response'.endpoint \in {"status", "history", "incidents", "health"}
            /\ sites' = sites
            /\ incidents' = incidents
            /\ status_history' = status_history
      /\ (results = <<>> /\ results' # <<>>)
         => (sites' = sites /\ incidents' = incidents /\ status_history' = status_history)
      /\ (sites' # sites \/ incidents' # incidents \/ status_history' # status_history)
         => /\ results # <<>>
            /\ results' = Tail(results)
            /\ \A r \in sites : r.name # Head(results).name => r \in sites'
            /\ \A inc \in incidents :
                 (\E r \in sites : r.name = Head(results).name /\ r.id = inc.site_id)
                   \/ inc \in incidents'
    ]_vars

\* C26 witness: a history request was served in the middle of a cycle, with
\* one result applied and one still pending, and returned the applied row.
C26_Witness ==
  /\ response.endpoint = "history"
  /\ response.code = 200
  /\ Len(response.history) = 1
  /\ Len(results) = 1
  /\ Len(config) = 2

\* C27: a probe result applied to a site sets last_change to the time of the
\* probe when the status changes and leaves last_change as it was when the
\* status stays the same.
C27_LastChangeOnlyOnTransition ==
  [][ \A before \in sites : \A after \in sites' :
        ProbeApplied(before, after)
        => /\ before.status # after.status => after.last_change = after.last_checked
           /\ before.status = after.status => after.last_change = before.last_change
    ]_vars

\* The status_history rows written since the current cycle began that belong
\* to the sites row of the i-th configured site.
NewRowsOf(i) ==
  {h \in status_history :
     /\ h.id > loop.base
     /\ \E s \in sites : s.name = config[i].name /\ s.id = h.site_id}

C29_OneHistoryRowPerAppliedResult ==
  [][ /\ status_history \subseteq status_history'
      /\ status_history' # status_history
           => (results # <<>> /\ results' = Tail(results))
      /\ (results # <<>> /\ results' = Tail(results) /\ seq'.sites = seq.sites)
           => /\ Cardinality(status_history' \ status_history) = 1
              /\ \A h \in status_history' \ status_history :
                   /\ \E s \in sites : s.name = Head(results).name /\ s.id = h.site_id
                   /\ h.status = Head(results).status
                   /\ h.response_time = Head(results).response_time
                   /\ h.status_code = Head(results).status_code
                   /\ h.error_message = Head(results).error
                   /\ \A old \in status_history : old.id < h.id
    ]_vars

\* C29 witness: a site with two history rows, one of a probe that timed out
\* (with its error and no status code) and one of a probe answered 200.
C29_Witness ==
  \E s \in sites :
    /\ Cardinality(HistoryOf(status_history, s.id)) = 2
    /\ \E h \in HistoryOf(status_history, s.id) :
         h.status = "Down" /\ h.error_message = "Request timeout" /\ h.status_code = NULL
    /\ \E h \in HistoryOf(status_history, s.id) :
         h.status = "Online" /\ h.status_code = HTTP_OK /\ h.error_message = "None"

\* C30: when a cycle has ended (no result is pending) the store holds no
\* status_history row older than the retention window.
C30_NoExpiredHistoryAfterCycle ==
  (results = <<>> /\ response = NoResponse)
    => \A h \in status_history : clock - h.checked_at <= RetentionWindow

\* ------------------------------------------------- specification: threads
\* StatusMonitor.start and stop called one after the other by the main
\* thread, and the monitor threads they create.  loop.running is
\* self.running; loop.threads lists the threads created so far, the last one
\* being self.monitor_thread.  A thread's pc is "created" (started, not yet
\* at the first line of monitor_loop), "test" (while self.running), "apply"
\* (inside check_all_sites, `pending` results left to apply, `rmw` while
\* _update_site_status is between its SELECT and its last statement),
\* "sleep" or "exited".  loop.last_call is the call made last,
\* loop.stop_requested whether it was stop().  What a cycle writes to the
\* store is followed by the other specifications; here the store is left
\* alone and only the positions of the threads are followed.
NewThread == [pc |-> "created", cycles |-> 0, pending |-> 0, rmw |-> FALSE]

Alive(t) == t.pc # "exited"

ThreadsInit ==
  /\ config \in Configs
  /\ clock = 0
  /\ sites = InitializeSitesOn({}, 0, config, 0).sites
  /\ status_history = {}
  /\ incidents = {}
  /\ seq = [sites |-> InitializeSitesOn({}, 0, config, 0).seq,
            status_history |-> 0, incidents |-> 0]
  /\ results = <<>>
  /\ response = NoResponse
  /\ network = <<>>
  /\ config_file = ValidFile(config)
  /\ tracker = TrackerIdle
  /\ fault = "none"
  /\ loop = [running |-> FALSE, threads |-> <<>>, calls |-> 0,
             last_call |-> "none", stop_requested |-> FALSE]

\* The steps of this specification leave the store, the clock and the
\* requests alone.
StoreUnchanged ==
  UNCHANGED <<config, sites, status_history, incidents, seq, clock, results,
              response, network, config_file, tracker, fault>>

\* Mutant: start() does not look at the thread it already has.
StartCreatesAlways(has_thread, is_alive) == TRUE

\* start: `if not self.monitor_thread or not self.monitor_thread.is_alive()`
StartCreates(has_thread, is_alive) == ~has_thread \/ ~is_alive

\* StatusMonitor.start
StartCall ==
  /\ loop.calls < MaxCalls
  /\ LET n == Len(loop.threads)
         creates == StartCreates(n > 0, n > 0 /\ Alive(loop.threads[n]))
     IN  loop' = [loop EXCEPT
                    !.threads = IF creates THEN Append(@, NewThread) ELSE @,
                    !.calls = @ + 1,
                    !.last_call = "start",
                    !.stop_requested = FALSE]
  /\ StoreUnchanged

\* StatusMonitor.stop: self.running = False, then join(timeout=10), which
\* returns whether or not the thread has ended.
StopCall ==
  /\ loop.calls < MaxCalls
  /\ loop' = [loop EXCEPT !.running = FALSE,
                          !.calls = @ + 1,
                          !.last_call = "stop",
                          !.stop_requested = TRUE]
  /\ StoreUnchanged

\* monitor_loop, first line: self.running = True
ThreadEnter(i) ==
  /\ loop.threads[i].pc = "created"
  /\ loop' = [loop EXCEPT !.running = TRUE, !.threads[i].pc = "test"]
  /\ StoreUnchanged

\* while self.running: true, the cycle begins and the probes are gathered.
ThreadBeginCycle(i) ==
  /\ loop.threads[i].pc = "test"
  /\ loop.running
  /\ loop.threads[i].cycles < MaxThreadCycles
  /\ loop' = [loop EXCEPT !.threads[i].pc = "apply",
                          !.threads[i].cycles = @ + 1,
                          !.threads[i].pending = Len(config)]
  /\ StoreUnchanged

\* while self.running: false, monitor_loop returns.
ThreadExit(i) ==
  /\ loop.threads[i].pc = "test"
  /\ ~loop.running
  /\ loop' = [loop EXCEPT !.threads[i].pc = "exited"]
  /\ StoreUnchanged

\* _update_site_status reads the site's row.
ThreadBeginUpdate(i) ==
  /\ loop.threads[i].pc = "apply"
  /\ ~loop.threads[i].rmw
  /\ loop.threads[i].pending > 0
  /\ loop' = [loop EXCEPT !.threads[i].rmw = TRUE]
  /\ StoreUnchanged

\* _update_site_status has written the row, the history and the incident.
ThreadEndUpdate(i) ==
  /\ loop.threads[i].pc = "apply"
  /\ loop.threads[i].rmw
  /\ loop' = [loop EXCEPT !.threads[i].rmw = FALSE, !.threads[i].pending = @ - 1]
  /\ StoreUnchanged

\* check_all_sites returns; `if self.running` chooses the sleep.
ThreadEndCycle(i) ==
  /\ loop.threads[i].pc = "apply"
  /\ ~loop.threads[i].rmw
  /\ loop.threads[i].pending = 0
  /\ loop' = [loop EXCEPT !.threads[i].pc = IF loop.running THEN "sleep" ELSE "test"]
  /\ StoreUnchanged

\* time.sleep(check_interval) returns.
ThreadWake(i) ==
  /\ loop.threads[i].pc = "sleep"
  /\ loop' = [loop EXCEPT !.threads[i].pc = "test"]
  /\ StoreUnchanged

ThreadsNext ==
  \/ StartCall
  \/ StopCall
  \/ \E i \in DOMAIN loop.threads : ThreadEnter(i)
  \/ \E i \in DOMAIN loop.threads : ThreadBeginCycle(i)
  \/ \E i \in DOMAIN loop.threads : ThreadExit(i)
  \/ \E i \in DOMAIN loop.threads : ThreadBeginUpdate(i)
  \/ \E i \in DOMAIN loop.threads : ThreadEndUpdate(i)
  \/ \E i \in DOMAIN loop.threads : ThreadEndCycle(i)
  \/ \E i \in DOMAIN loop.threads : ThreadWake(i)

SpecThreads == ThreadsInit /\ [][ThreadsNext]_vars

\* C31: whatever the calls of start() and stop() and the steps of the monitor
\* threads, at most one monitor thread is alive and at most one execution of
\* the tracker's read-modify-write sequence is in progress.
C31_OneTrackerSequenceAtATime ==
  /\ Cardinality({i \in DOMAIN loop.threads : Alive(loop.threads[i])}) <= 1
  /\ Cardinality({i \in DOMAIN loop.threads : loop.threads[i].rmw}) <= 1
  /\ \A i \in DOMAIN loop.threads :
       loop.threads[i].rmw => (loop.threads[i].pc = "apply" /\ i = Len(loop.threads))

\* C31 witness: a second monitor thread, created by a start() after the first
\* thread had ended, is inside the tracker's sequence.
C31_Witness ==
  /\ Len(loop.threads) = 2
  /\ loop.threads[1].pc = "exited"
  /\ loop.threads[1].cycles > 0
  /\ loop.threads[2].rmw

\* C32: once stop() has been called (and start() not called again) no
\* monitor thread begins a new cycle, wherever the thread was when stop() was
\* called, so that the thread ends at its next test.
C32_NoCycleBeginsAfterStop ==
  [][ loop.stop_requested
        => \A i \in DOMAIN loop.threads :
             loop'.threads[i].cycles = loop.threads[i].cycles
    ]_vars

\* C33: whenever the last call was start(), a monitor thread is alive and its
\* loop goes on: it has yet to enter monitor_loop or self.running is true.
C33_StartLeavesLoopRunning ==
  loop.last_call = "start"
    => \E i \in DOMAIN loop.threads :
         /\ Alive(loop.threads[i])
         /\ (loop.threads[i].pc = "created" \/ loop.running)

\* C34: for every site (sites row) probed at least once and every snapshot,
\* the uptime and the downtime of the snapshot add up to the time between the
\* row's first probe and the snapshot's current_time: each instant since the
\* first probe is in exactly one of the tracker's totals and the snapshot's
\* running interval.  While a status response is being returned, clock is the
\* handler's current_time.
C34_EveryInstantCountedOnce ==
  response.endpoint = "status" =>
    \A r \in sites :
      LET H == HistoryOf(status_history, r.id)
          first == CHOOSE h \in H : \A o \in H : h.id <= o.id
          e == response.sites[r.name]
      IN  H # {} =>
            \E display_uptime \in 0 .. clock : \E display_downtime \in 0 .. clock :
              /\ e.uptime = SecondsText(display_uptime)
              /\ e.downtime = SecondsText(display_downtime)
              /\ display_uptime + display_downtime = clock - first.checked_at

\* C34 witness: a snapshot taken after the latest of three probes of a site
\* seeded at 0 and first probed later, with time in both totals.
C34_Witness ==
  /\ response.endpoint = "status"
  /\ \E r \in sites :
       LET H == HistoryOf(status_history, r.id)
       IN  /\ r.id = 1
           /\ Cardinality(H) >= 3
           /\ \A h \in H : h.checked_at > 0 /\ h.checked_at < clock
           /\ r.total_uptime > 0
           /\ r.total_downtime > 0
           /\ response.sites[r.name].uptime # SecondsText(r.total_uptime)

C36_RecordsReferToRegistry ==
  /\ \A inc \in incidents : \E r \in sites : r.id = inc.site_id
  /\ \A h \in status_history : \E r \in sites : r.id = h.site_id

\* C37: once a site has been probed (its status is Online or Down) no
\* operation, probe update, seeding or query, returns the site of that name
\* to Unknown.
C37_ProbedSiteNeverUnknownAgain ==
  [][ \A r \in sites :
        r.status \in {"Online", "Down"}
        => \A later \in sites' : later.name = r.name => later.status \in {"Online", "Down"}
    ]_vars

\* ------------------------------------------------- incidents over time
\* The writers of the store followed for more probes than Spec follows:
\* restarts, cycles and the tracker.
FlapInit == Init

\* check_all_sites up to the end of asyncio.gather, as CheckAllSites.
FlapCheckAllSites ==
  /\ response = NoResponse
  /\ results = <<>>
  /\ seq.status_history + Len(config) <= MaxFlapHistory
  /\ \E start_time \in ClockReads(clock) :
     \E outs \in [1 .. Len(config) -> Outcomes] :
       /\ start_time + MaxLatency(outs) <= MaxTime
       /\ results' = [i \in 1 .. Len(config) |-> CheckSite(config[i], outs[i], start_time)]
       /\ network' = outs
       /\ clock' = start_time + MaxLatency(outs)
  /\ UNCHANGED <<config, sites, status_history, incidents, seq, response>>
  /\ UNCHANGED aux

FlapNext ==
  \/ InitializeSites
  \/ FlapCheckAllSites
  \/ UpdateSiteStatus

SpecFlap == FlapInit /\ [][FlapNext]_vars

\* C38: once an incident is resolved no later operation changes it: the row,
\* with its start_time, end_time, duration and resolved flag, is the same
\* after every step.
C38_ResolvedIncidentIsFixed ==
  [][ \A inc \in incidents : inc.resolved => inc \in incidents' ]_vars

\* C38 witness: a site went Online, Down, Online, Down, Online: its first
\* incident was resolved before the second one was created and resolved.
C38_Witness ==
  \E a \in incidents : \E b \in incidents :
    /\ a.site_id = b.site_id
    /\ a.resolved
    /\ b.resolved
    /\ a.end_time < b.start_time
    /\ b.start_time < b.end_time

====
